---------------------------- MODULE Spec2Model ----------------------------
(***************************************************************************)
(* State-machine model of src/main.py: the LINE webhook handler, the       *)
(* background task process_video_task, the acquisition cascade             *)
(* get_video_content (official transcript, Cobalt, Invidious, yt-dlp) and  *)
(* the generation matrix walk summarize_text.                              *)
(*                                                                         *)
(* Python strings are modelled as sequences of tokens: "" is <<>>, the     *)
(* `in` operator is token membership and str.split is splitting at a       *)
(* separator token.  Non-ASCII literals of the source are written in ASCII *)
(* with the original given in the comment next to them.                    *)
(***************************************************************************)
EXTENDS Integers, Sequences, FiniteSets, TLC

(***************************************************************************)
(* Bounds of the model.                                                    *)
(***************************************************************************)
\* length of the two mirror pools (COBALT_INSTANCES, INVIDIOUS_INSTANCES)
NumInstances == 2
\* largest credential pool of the generation specification SpecSum
\* (raw_keys, main.py:27-32, has four slots)
MaxKeys == 3
\* largest credential pool of the pipeline specifications Spec and SpecConc
PipelineKeys == 1
\* credential pool of the two-request generation specification SpecSumConc
ConcKeys == 2

\* the requests: each is one thread started by handle_message
Req == {1, 2}

(***************************************************************************)
(* Program constants.                                                      *)
(***************************************************************************)
\* main.py:101, 140, 242: a download under 10240 bytes is a failure
MinSize == 10240
\* main.py:272-277: priority_models
priority_models ==
    <<"gemini-2.5-flash", "gemini-2.0-flash-exp", "gemini-2.5-flash-lite",
      "gemini-2.0-flash-lite-preview-02-05">>
\* main.py:172, 258: the two failure tags ("錯誤" and "失敗")
TagError == "error"
TagFailed == "failed"
\* main.py:182, 195, 209, 248: the four source tags
\* ("CC字幕(官方)", "語音轉錄(Cobalt)", "語音轉錄(Invidious)", "語音轉錄(yt-dlp)")
TagOfficial == "CC(official)"
TagCobalt == "STT(Cobalt)"
TagInvidious == "STT(Invidious)"
TagYtdlp == "STT(yt-dlp)"
\* main.py:175: source_type = "未知"
TagUnknown == "unknown"
\* main.py:310, 313, 321: the markers of the outbound payload ("❌", "✅ 分析完成")
MarkFail == "[X]"
MarkOk == "[OK]"
\* main.py:302: "AI 生成失敗。原因: "
GenFailPrefix == "AI-generation-failed:"

(***************************************************************************)
(* Python values.                                                          *)
(***************************************************************************)
\* Python None, where a string or None is held (main.py:174, 107, 146, 152)
None == <<"None">>
\* Python truthiness of a str-or-None value: `if full_text`, `if not full_text`
Truthy(x) == x # None /\ x # <<>>

\* `tok in s`
Contains(s, tok) == \E i \in 1..Len(s) : s[i] = tok
\* s.split(sep)[-1]: what follows the last occurrence of sep (s if none)
SplitLast(s, sep) ==
    IF Contains(s, sep)
    THEN LET i == CHOOSE k \in 1..Len(s) :
                     s[k] = sep /\ \A j \in (k+1)..Len(s) : s[j] # sep
         IN  SubSeq(s, i + 1, Len(s))
    ELSE s
\* s.split(sep)[0]: what precedes the first occurrence of sep (s if none)
SplitFirst(s, sep) ==
    IF Contains(s, sep)
    THEN LET i == CHOOSE k \in 1..Len(s) :
                     s[k] = sep /\ \A j \in 1..(k-1) : s[j] # sep
         IN  SubSeq(s, 1, i - 1)
    ELSE s

\* random.shuffle of a copy: any permutation of the list
Shuffles(s) ==
    { [i \in 1..Len(s) |-> s[p[i]]] : p \in Permutations(1..Len(s)) }

(***************************************************************************)
(* Inputs.                                                                 *)
(***************************************************************************)
\* texts of incoming LINE messages (event.message.text.strip())
Messages ==
    { <<"youtube.com", "/", "watch", "?", "v=", "a">>,
      <<"youtube.com", "/", "watch", "?", "v=", "a", "&", "t">>,
      <<"youtu.be", "/", "a">>,
      <<"youtu.be", "/", "b", "?", "t">>,
      <<"youtube.com", "/", "shorts", "/", "a">>,
      <<"see", "v=", "a">>,
      <<"hello">> }
\* the messages of the two-request specification
ConcMessages ==
    { <<"youtube.com", "/", "watch", "?", "v=", "a">>,
      <<"youtu.be", "/", "b", "?", "t">> }
\* the messages of the specification with fairness: a URL of a recognized
\* form, a URL of neither form and a text that is no trigger
LiveMessages ==
    { <<"youtube.com", "/", "watch", "?", "v=", "a">>,
      <<"youtube.com", "/", "shorts", "/", "a">>,
      <<"hello">> }
\* sizes in bytes a download may have on disk
Sizes == {5000, 10240, 20000, 31457280}
\* sizes in bytes of a download that was interrupted
PartialSizes == {0, 20000}
\* languages of the tracks list_transcripts may return
Languages == {"zh-TW", "en"}
\* what str(e) of a failed generation attempt may contain (main.py:293-298)
ErrKinds == {"429", "404", "500"}

\* main.py:168-170 / 94: the identifiers a message can yield
extract_v(url) == SplitFirst(SplitLast(url, "v="), "&")
extract_path(url) == SplitFirst(SplitLast(url, "/"), "?")
\* main.py:94: video_id of download_via_cobalt
cobalt_video_id(url) == IF Contains(url, "v=") THEN extract_v(url) ELSE <<"temp">>

Ids == {extract_v(m) : m \in Messages} \cup {extract_path(m) : m \in Messages}
         \cup {<<"temp">>}
Kinds == {"cob", "inv", "ytd"}
\* /tmp/<id>_cob.mp3, /tmp/<id>_inv.mp3, /tmp/<id>.<ext>
Paths == Ids \X Kinds
NoPath == <<<<>>, "">>
\* a path with no file.  A file on disk has the request that created it
\* (owner), its size and whether its writer has closed it (complete).
NoFile == [exists |-> FALSE, owner |-> 0, size |-> 0, complete |-> FALSE]

VARIABLES
    API_KEY_POOL,         \* main.py:33
    COBALT_INSTANCES,     \* main.py:52
    INVIDIOUS_INSTANCES,  \* main.py:61
    YOUTUBE_COOKIES,      \* os.environ.get('YOUTUBE_COOKIES') is set
    api_key,              \* the key genai.configure last installed (global)
    files,                \* /tmp: path -> file
    cookie_files,         \* the mkstemp cookie files on disk, by creating request
    thread,               \* per request: position and local variables
    log                   \* per request: what the request has done so far

vars == <<API_KEY_POOL, COBALT_INSTANCES, INVIDIOUS_INSTANCES, YOUTUBE_COOKIES,
          api_key, files, cookie_files, thread, log>>
pools == <<API_KEY_POOL, COBALT_INSTANCES, INVIDIOUS_INSTANCES, YOUTUBE_COOKIES>>

T(r) == thread[r]
L(r) == log[r]

\* the locals of a request before it starts
InitThread(m, start) ==
    [ pc |-> start,
      msg |-> m,
      video_id |-> <<>>,
      full_text |-> None,
      source_type |-> TagUnknown,
      kind |-> "",
      instances |-> <<>>,
      audio_file |-> NoPath,
      f |-> 0,
      cookie_path |-> 0,
      filename |-> NoPath,
      ret |-> <<"", <<>>>>,
      keys_to_try |-> <<>>,
      mi |-> 0,
      last_error |-> <<>>,
      summary |-> <<>>,
      result_msg |-> <<>> ]

InitLog ==
    [ replied |-> FALSE,
      entered |-> <<>>,
      netlog |-> {},
      polled |-> <<>>,
      tracks |-> <<>>,
      sum_calls |-> 0,
      audio_size |-> 0,
      attempts |-> <<>>,
      last_outcome |-> "",
      pushes |-> <<>> ]

\* main.py:27-33: the non-empty keys of the environment, in slot order; two
\* variables may hold the same key
KeyPools(n) == UNION { [1..k -> 1..n] : k \in 0..n }
\* the pools of up to n keys that are all different
DistinctKeyPools(n) == { [i \in 1..k |-> i] : k \in 0..n }

InitWith(active, start, msgs, keypools, cookies) ==
    /\ API_KEY_POOL \in keypools
    /\ COBALT_INSTANCES = [i \in 1..NumInstances |-> i]
    /\ INVIDIOUS_INSTANCES = [i \in 1..NumInstances |-> i]
    /\ YOUTUBE_COOKIES \in cookies
    /\ api_key = 0
    /\ files = [p \in Paths |-> NoFile]
    /\ cookie_files = {}
    /\ thread \in { f \in [Req -> {InitThread(m, start) : m \in msgs}
                                    \cup {InitThread(<<>>, "off")}] :
                      \A r \in Req : (f[r].pc = start) <=> (r \in active) }
    /\ log = [r \in Req |-> InitLog]

Init == InitWith({1}, "idle", Messages, DistinctKeyPools(PipelineKeys), BOOLEAN)

Goto(r, rec) == thread' = [thread EXCEPT ![r] = rec]
Note(r, rec) == log' = [log EXCEPT ![r] = rec]

(***************************************************************************)
(* handle_message, main.py:335-346                                         *)
(***************************************************************************)
\* main.py:340: the trigger test
is_trigger(m) == Contains(m, "youtube.com") \/ Contains(m, "youtu.be")

handle_message(r) ==
    /\ T(r).pc = "idle"
    /\ IF is_trigger(T(r).msg)
       THEN /\ Goto(r, [T(r) EXCEPT !.pc = "gvc_parse"])
            /\ Note(r, [L(r) EXCEPT !.replied = TRUE])
       ELSE /\ Goto(r, [T(r) EXCEPT !.pc = "ignored"])
            /\ UNCHANGED log
    /\ UNCHANGED <<pools, api_key, files, cookie_files>>

(***************************************************************************)
(* get_video_content, main.py:165-262                                      *)
(***************************************************************************)
Return(t, tag, content) == [t EXCEPT !.pc = "pvt_branch", !.ret = <<tag, content>>]

\* gvc_parse asking for the transcript list before it tests the URL
gvc_parse_late(r) ==
    /\ T(r).pc = "gvc_parse"
    /\ LET url == T(r).msg IN
       IF Contains(url, "v=")
       THEN /\ Goto(r, [T(r) EXCEPT !.pc = "A", !.video_id = extract_v(url)])
            /\ UNCHANGED log
       ELSE IF Contains(url, "youtu.be")
       THEN /\ Goto(r, [T(r) EXCEPT !.pc = "A", !.video_id = extract_path(url)])
            /\ UNCHANGED log
       ELSE /\ Goto(r, Return(T(r), TagError, <<"unrecognized-url">>))
            /\ Note(r, [L(r) EXCEPT !.netlog = @ \cup {"A"}])
    /\ UNCHANGED <<pools, api_key, files, cookie_files>>

\* main.py:166-175
gvc_parse(r) ==
    /\ T(r).pc = "gvc_parse"
    /\ LET url == T(r).msg IN
       IF Contains(url, "v=")
       THEN Goto(r, [T(r) EXCEPT !.pc = "A", !.video_id = extract_v(url)])
       ELSE IF Contains(url, "youtu.be")
       THEN Goto(r, [T(r) EXCEPT !.pc = "A", !.video_id = extract_path(url)])
       ELSE Goto(r, Return(T(r), TagError, <<"unrecognized-url">>))
    /\ UNCHANGED <<pools, api_key, files, cookie_files, log>>

Enter(l, s) == [l EXCEPT !.entered = Append(@, s), !.netlog = @ \cup {s}]

\* main.py:178-183: strategy A.  list_transcripts raises, or returns a list of
\* tracks (an empty list makes list(...)[0] raise); fetch raises or returns
\* the segments, which may be none.  (log.tracks: the list of tracks a
\* transcript text was taken from.)
strategy_A(r) ==
    /\ T(r).pc = "A"
    /\ \/ /\ Goto(r, [T(r) EXCEPT !.pc = "B"])
          /\ Note(r, Enter(L(r), "A"))
       \/ \E tracks \in {<<l>> : l \in Languages}
                         \cup {<<l1, l2>> : l1 \in Languages, l2 \in Languages} :
          \E segs \in {0, 1} :
             LET transcript == tracks[1]
                 text == IF segs = 0 THEN <<>> ELSE <<"cc", transcript>>
             IN  /\ Goto(r, [T(r) EXCEPT !.pc = "B", !.full_text = text,
                                         !.source_type = TagOfficial])
                 /\ Note(r, [Enter(L(r), "A") EXCEPT
                               !.tracks = IF segs = 0 THEN <<>> ELSE tracks])
    /\ UNCHANGED <<pools, api_key, files, cookie_files>>

\* main.py:186, 200, 214: `if not full_text:` before strategies B, C and D
guard_B(t) == ~Truthy(t.full_text)
\* guard_C with the test left out: strategy C runs whatever B produced
guard_C_dropped(t) == TRUE
guard_C(t) == ~Truthy(t.full_text)
guard_D(t) == ~Truthy(t.full_text)

\* the strategy a download function works for, and the one after it
StrategyOf(kind) == IF kind = "cob" THEN "B" ELSE "C"
AfterStrategy(kind) == IF kind = "cob" THEN "C" ELSE "D"

\* main.py:186-187: strategy B calls download_via_cobalt(video_url)
strategy_B(r) ==
    /\ T(r).pc = "B"
    /\ IF guard_B(T(r))
       THEN /\ Goto(r, [T(r) EXCEPT !.pc = "dl_shuffle", !.kind = "cob"])
            /\ Note(r, [L(r) EXCEPT !.entered = Append(@, "B")])
       ELSE /\ Goto(r, [T(r) EXCEPT !.pc = "C"])
            /\ UNCHANGED log
    /\ UNCHANGED <<pools, api_key, files, cookie_files>>

\* main.py:200-201: strategy C calls download_via_invidious(video_id)
strategy_C(r) ==
    /\ T(r).pc = "C"
    /\ IF guard_C(T(r))
       THEN /\ Goto(r, [T(r) EXCEPT !.pc = "dl_shuffle", !.kind = "inv"])
            /\ Note(r, [L(r) EXCEPT !.entered = Append(@, "C")])
       ELSE /\ Goto(r, [T(r) EXCEPT !.pc = "D"])
            /\ UNCHANGED log
    /\ UNCHANGED <<pools, api_key, files, cookie_files>>

(***************************************************************************)
(* download_via_cobalt, main.py:69-107, and download_via_invidious,        *)
(* main.py:109-146: the same loop over a shuffled copy of the pool.        *)
(***************************************************************************)
\* main.py:95, 135: filename
download_path(t) ==
    IF t.kind = "cob" THEN <<cobalt_video_id(t.msg), "cob">>
                      ELSE <<t.video_id, "inv">>

\* dl_shuffle without the copy: random.shuffle works on the pool itself
dl_shuffle_in_place(r) ==
    /\ T(r).pc = "dl_shuffle"
    /\ IF T(r).kind = "cob"
       THEN \E s \in Shuffles(COBALT_INSTANCES) :
               /\ COBALT_INSTANCES' = s
               /\ Goto(r, [T(r) EXCEPT !.pc = "dl_request", !.instances = s])
               /\ UNCHANGED INVIDIOUS_INSTANCES
       ELSE \E s \in Shuffles(INVIDIOUS_INSTANCES) :
               /\ INVIDIOUS_INSTANCES' = s
               /\ Goto(r, [T(r) EXCEPT !.pc = "dl_request", !.instances = s])
               /\ UNCHANGED COBALT_INSTANCES
    /\ UNCHANGED <<API_KEY_POOL, YOUTUBE_COOKIES, api_key, files, cookie_files, log>>

\* main.py:70-71, 110-111
dl_shuffle(r) ==
    /\ T(r).pc = "dl_shuffle"
    /\ \E s \in Shuffles(IF T(r).kind = "cob" THEN COBALT_INSTANCES
                                              ELSE INVIDIOUS_INSTANCES) :
          Goto(r, [T(r) EXCEPT !.pc = "dl_request", !.instances = s])
    /\ UNCHANGED <<pools, api_key, files, cookie_files, log>>

\* (log.polled: the instances asked so far by the poll that is under way)
\* `continue`: on to the next instance of the shuffled list
Continue(t) == [t EXCEPT !.pc = "dl_request", !.instances = Tail(@)]

\* main.py:80-92, 113-133: the loop head, the metadata request and the request
\* for the stream.  A non-200 status, an error response, a missing URL and
\* an exception all `continue`; an exhausted list returns None.
dl_request(r) ==
    /\ T(r).pc = "dl_request"
    /\ IF T(r).instances = <<>>
       THEN /\ Goto(r, [T(r) EXCEPT !.pc = AfterStrategy(T(r).kind),
                                    !.kind = "", !.audio_file = NoPath])
            /\ Note(r, [L(r) EXCEPT !.polled = <<>>])
       ELSE /\ \E outcome \in {"exception", "status", "error", "no-url", "ok"} :
                 IF outcome = "ok"
                 THEN Goto(r, [T(r) EXCEPT !.pc = "dl_open"])
                 ELSE Goto(r, Continue(T(r)))
            /\ Note(r, [L(r) EXCEPT !.netlog = @ \cup {StrategyOf(T(r).kind)},
                                    !.polled = Append(@, Head(T(r).instances))])
    /\ UNCHANGED <<pools, api_key, files, cookie_files>>

\* main.py:97, 136: open(filename, 'wb') creates the file, or truncates the
\* file that is there (which stays its creator's); f is the file held open
dl_open(r) ==
    /\ T(r).pc = "dl_open"
    /\ LET p == download_path(T(r))
           creator == IF files[p].exists THEN files[p].owner ELSE r
       IN  /\ files' = [files EXCEPT ![p] = [exists |-> TRUE, owner |-> creator,
                                             size |-> 0, complete |-> FALSE]]
           /\ Goto(r, [T(r) EXCEPT !.pc = "dl_write", !.f = creator])
    /\ UNCHANGED <<pools, api_key, cookie_files, log>>

\* main.py:98-99, 137-138: the chunks are written; iter_content may raise
\* part-way, which leaves the file as written so far (nothing, or some of the
\* stream) and goes on to the next instance; otherwise the file is closed
\* with the whole stream in it.  The writes show at the path while the file
\* held open is still the one linked there.
dl_write(r) ==
    /\ T(r).pc = "dl_write"
    /\ LET p == download_path(T(r))
           linked == files[p].exists /\ files[p].owner = T(r).f
       IN  \/ /\ Goto(r, [Continue(T(r)) EXCEPT !.f = 0])
              /\ \E s \in PartialSizes :
                    files' = IF linked THEN [files EXCEPT ![p].size = s] ELSE files
           \/ /\ Goto(r, [T(r) EXCEPT !.pc = "dl_size", !.f = 0])
              /\ \E s \in Sizes :
                    files' = IF linked
                             THEN [files EXCEPT ![p].size = s, ![p].complete = TRUE]
                             ELSE files
    /\ UNCHANGED <<pools, api_key, cookie_files, log>>

\* too_small with the test left out: a download of any size is kept
too_small_never(size) == FALSE
\* main.py:101, 140: `os.path.getsize(filename) < 10240`
too_small(size) == size < MinSize

\* main.py:101-105, 140-144: getsize raises when the file is gone
dl_size(r) ==
    /\ T(r).pc = "dl_size"
    /\ LET p == download_path(T(r))
           f == files[p]
       IN  IF ~f.exists
           THEN Goto(r, Continue(T(r))) /\ UNCHANGED log
           ELSE IF too_small(f.size)
           THEN Goto(r, [T(r) EXCEPT !.pc = "dl_remove"]) /\ UNCHANGED log
           ELSE /\ Goto(r, [T(r) EXCEPT !.pc = "stt_open", !.instances = <<>>,
                                        !.audio_file = p])
                /\ Note(r, [L(r) EXCEPT !.polled = <<>>])
    /\ UNCHANGED <<pools, api_key, files, cookie_files>>

\* main.py:102-103, 141-142: os.remove(filename); continue
dl_remove(r) ==
    /\ T(r).pc = "dl_remove"
    /\ files' = [files EXCEPT ![download_path(T(r))] = NoFile]
    /\ Goto(r, Continue(T(r)))
    /\ UNCHANGED <<pools, api_key, cookie_files, log>>

(***************************************************************************)
(* Strategies B and C after the download, main.py:188-197 and 202-211      *)
(***************************************************************************)
\* the next strategy, with the download's locals out of scope
Fallthrough(t) == [t EXCEPT !.pc = AfterStrategy(t.kind), !.kind = "",
                            !.audio_file = NoPath]

\* main.py:190, 204: open(audio_file, "rb"); a missing file raises -> pass
stt_open(r) ==
    /\ T(r).pc = "stt_open"
    /\ IF files[T(r).audio_file].exists
       THEN Goto(r, [T(r) EXCEPT !.pc = "stt_read"])
       ELSE Goto(r, Fallthrough(T(r)))
    /\ UNCHANGED <<pools, api_key, files, cookie_files, log>>

\* main.py:191-195, 205-209: file.read() and the transcription call, which
\* raises (-> pass, nothing removed) or returns a text, possibly empty
stt_transcribe(r) ==
    /\ T(r).pc = "stt_read"
    /\ Note(r, [L(r) EXCEPT !.netlog = @ \cup {StrategyOf(T(r).kind)},
                            !.audio_size = files[T(r).audio_file].size])
    /\ \/ Goto(r, Fallthrough(T(r)))
       \/ \E text \in {<<>>, <<"stt", T(r).kind>>} :
             Goto(r, [T(r) EXCEPT !.pc = "stt_remove", !.full_text = text,
                        !.source_type = IF T(r).kind = "cob" THEN TagCobalt
                                                              ELSE TagInvidious])
    /\ UNCHANGED <<pools, api_key, files, cookie_files>>

\* main.py:196, 210: if os.path.exists(audio_file): os.remove(audio_file)
stt_remove(r) ==
    /\ T(r).pc = "stt_remove"
    /\ files' = [files EXCEPT ![T(r).audio_file] = NoFile]
    /\ Goto(r, Fallthrough(T(r)))
    /\ UNCHANGED <<pools, api_key, cookie_files, log>>

(***************************************************************************)
(* Strategy D (yt-dlp), main.py:214-255, with create_cookie_file, 149-162  *)
(***************************************************************************)
\* main.py:149-162, 216: create_cookie_file() returns a path or None.  With
\* the variable set, mkstemp and the write succeed, or mkstemp raises, or
\* the write raises after mkstemp made the file.
strategy_D(r) ==
    /\ T(r).pc = "D"
    /\ IF guard_D(T(r))
       THEN /\ Note(r, [L(r) EXCEPT !.entered = Append(@, "D")])
            /\ IF ~YOUTUBE_COOKIES
               THEN /\ Goto(r, [T(r) EXCEPT !.pc = "D_extract", !.cookie_path = 0])
                    /\ UNCHANGED cookie_files
               ELSE \/ /\ cookie_files' = cookie_files \cup {r}
                       /\ Goto(r, [T(r) EXCEPT !.pc = "D_extract", !.cookie_path = r])
                    \/ /\ UNCHANGED cookie_files
                       /\ Goto(r, [T(r) EXCEPT !.pc = "D_extract", !.cookie_path = 0])
                    \/ /\ cookie_files' = cookie_files \cup {r}
                       /\ Goto(r, [T(r) EXCEPT !.pc = "D_extract", !.cookie_path = 0])
       ELSE /\ Goto(r, [T(r) EXCEPT !.pc = "gvc_return"])
            /\ UNCHANGED <<log, cookie_files>>
    /\ UNCHANGED <<pools, api_key, files>>

\* main.py:236-239: extract_info(download=True) raises, returns None, or
\* returns the info of a download that prepare_filename names; the file is
\* on disk then (a download already there is kept) or it is not.
D_extract(r) ==
    /\ T(r).pc = "D_extract"
    /\ Note(r, [L(r) EXCEPT !.netlog = @ \cup {"D"}])
    /\ LET p == <<T(r).video_id, "ytd">> IN
       \/ /\ Goto(r, [T(r) EXCEPT !.pc = "D_finally"])
          /\ UNCHANGED files
       \/ /\ Goto(r, [T(r) EXCEPT !.pc = "D_size", !.filename = p])
          /\ UNCHANGED files
       \/ /\ Goto(r, [T(r) EXCEPT !.pc = "D_size", !.filename = p])
          /\ \E s \in Sizes :
                files' = IF files[p].exists THEN files
                         ELSE [files EXCEPT ![p] = [exists |-> TRUE, owner |-> r,
                                                    size |-> s, complete |-> TRUE]]
    /\ UNCHANGED <<pools, api_key, cookie_files>>

\* main.py:242: `os.path.getsize(filename) > 10240`
big_enough(size) == size > MinSize

\* main.py:241-242: exists, then getsize
D_size(r) ==
    /\ T(r).pc = "D_size"
    /\ LET f == files[T(r).filename] IN
       IF ~f.exists THEN Goto(r, [T(r) EXCEPT !.pc = "D_finally"])
       ELSE IF big_enough(f.size) THEN Goto(r, [T(r) EXCEPT !.pc = "D_open"])
       ELSE Goto(r, [T(r) EXCEPT !.pc = "D_remove"])
    /\ UNCHANGED <<pools, api_key, files, cookie_files, log>>

\* main.py:243: open(filename, "rb"); a missing file raises -> except, finally
D_open(r) ==
    /\ T(r).pc = "D_open"
    /\ IF files[T(r).filename].exists
       THEN Goto(r, [T(r) EXCEPT !.pc = "D_read"])
       ELSE Goto(r, [T(r) EXCEPT !.pc = "D_finally"])
    /\ UNCHANGED <<pools, api_key, files, cookie_files, log>>

\* main.py:244-248: file.read() and the transcription call, which raises
\* (-> except at 250, the file is not removed) or returns a text
D_transcribe(r) ==
    /\ T(r).pc = "D_read"
    /\ Note(r, [L(r) EXCEPT !.netlog = @ \cup {"D"},
                            !.audio_size = files[T(r).filename].size])
    /\ \/ Goto(r, [T(r) EXCEPT !.pc = "D_finally"])
       \/ \E text \in {<<>>, <<"stt", "ytd">>} :
             Goto(r, [T(r) EXCEPT !.pc = "D_remove", !.full_text = text,
                                  !.source_type = TagYtdlp])
    /\ UNCHANGED <<pools, api_key, files, cookie_files>>

\* main.py:249: if os.path.exists(filename): os.remove(filename)
D_remove(r) ==
    /\ T(r).pc = "D_remove"
    /\ files' = [files EXCEPT ![T(r).filename] = NoFile]
    /\ Goto(r, [T(r) EXCEPT !.pc = "D_finally"])
    /\ UNCHANGED <<pools, api_key, cookie_files, log>>

\* main.py:252-255: finally, the cookie file of cookie_path is removed
D_finally(r) ==
    /\ T(r).pc = "D_finally"
    /\ cookie_files' = IF T(r).cookie_path # 0 THEN cookie_files \ {T(r).cookie_path}
                       ELSE cookie_files
    /\ Goto(r, [T(r) EXCEPT !.pc = "gvc_return", !.filename = NoPath,
                            !.cookie_path = 0])
    /\ UNCHANGED <<pools, api_key, files, log>>

\* result_of testing `full_text is None` in place of `not full_text`
result_of_is_none(t) ==
    IF t.full_text = None THEN <<TagFailed, <<"all-methods-failed">>>>
    ELSE <<t.source_type, t.full_text>>

\* main.py:257-260: the pair get_video_content returns
result_of(t) ==
    IF ~Truthy(t.full_text) THEN <<TagFailed, <<"all-methods-failed">>>>
    ELSE <<t.source_type, t.full_text>>

gvc_return(r) ==
    /\ T(r).pc = "gvc_return"
    /\ Goto(r, [T(r) EXCEPT !.pc = "pvt_branch", !.ret = result_of(T(r)),
                            !.full_text = None, !.source_type = TagUnknown,
                            !.video_id = <<>>])
    /\ UNCHANGED <<pools, api_key, files, cookie_files, log>>

(***************************************************************************)
(* process_video_task, main.py:305-322                                     *)
(***************************************************************************)
\* main.py:309: the test that picks the failure payload
is_failure(tag) == tag = TagFailed \/ tag = TagError
\* main.py:310: result_msg of a failed acquisition
failure_msg(content) == <<MarkFail>> \o content
\* main.py:313: result_msg after summarize_text returned
success_msg(source, summary) == <<MarkOk, source>> \o summary

\* main.py:307-312
pvt_branch(r) ==
    /\ T(r).pc = "pvt_branch"
    /\ IF is_failure(T(r).ret[1])
       THEN /\ Goto(r, [T(r) EXCEPT !.pc = "push",
                                    !.result_msg = failure_msg(T(r).ret[2])])
            /\ UNCHANGED log
       ELSE /\ Goto(r, [T(r) EXCEPT !.pc = "sum_shuffle"])
            /\ Note(r, [L(r) EXCEPT !.sum_calls = @ + 1])
    /\ UNCHANGED <<pools, api_key, files, cookie_files>>

(***************************************************************************)
(* summarize_text, main.py:265-302                                         *)
(***************************************************************************)
\* main.py:279-282
sum_shuffle(r) ==
    /\ T(r).pc = "sum_shuffle"
    /\ \E ks \in Shuffles(API_KEY_POOL) :
          Goto(r, [T(r) EXCEPT !.pc = "sum_configure", !.keys_to_try = ks,
                               !.last_error = <<>>])
    /\ UNCHANGED <<pools, api_key, files, cookie_files, log>>

\* summarize_text returns, and main.py:313 builds the payload
sum_return(t, text) ==
    [t EXCEPT !.pc = "push", !.summary = text, !.keys_to_try = <<>>, !.mi = 0,
              !.last_error = <<>>, !.result_msg = success_msg(t.ret[1], text)]

\* main.py:302: the string returned when the loops end
failure_text(last_error) == <<GenFailPrefix>> \o last_error

\* main.py:284-285, 302: the outer loop head; genai.configure installs the
\* key process-wide
sum_configure(r) ==
    /\ T(r).pc = "sum_configure"
    /\ IF T(r).keys_to_try = <<>>
       THEN /\ Goto(r, sum_return(T(r), failure_text(T(r).last_error)))
            /\ UNCHANGED api_key
       ELSE /\ api_key' = Head(T(r).keys_to_try)
            /\ Goto(r, [T(r) EXCEPT !.pc = "sum_generate", !.mi = 1])
    /\ UNCHANGED <<pools, files, cookie_files, log>>

\* after_failure retrying the same model on a rate-limit error
after_failure_retry(t, e) ==
    IF e = "429" THEN [t EXCEPT !.last_error = <<e>>]
    ELSE IF t.mi < Len(priority_models)
    THEN [t EXCEPT !.mi = @ + 1, !.last_error = <<e>>]
    ELSE [t EXCEPT !.pc = "sum_configure", !.keys_to_try = Tail(@), !.mi = 0,
                   !.last_error = <<e>>]

\* after_failure leaving both loops on an error that is neither 429 nor 404
after_failure_abort(t, e) ==
    IF e = "500"
    THEN [t EXCEPT !.pc = "sum_configure", !.keys_to_try = <<>>, !.mi = 0,
                   !.last_error = <<e>>]
    ELSE IF t.mi < Len(priority_models)
    THEN [t EXCEPT !.mi = @ + 1, !.last_error = <<e>>]
    ELSE [t EXCEPT !.pc = "sum_configure", !.keys_to_try = Tail(@), !.mi = 0,
                   !.last_error = <<e>>]

\* after_failure giving up the key on a model that is not authorised (404)
after_failure_skip_key(t, e) ==
    IF e # "404" /\ t.mi < Len(priority_models)
    THEN [t EXCEPT !.mi = @ + 1, !.last_error = <<e>>]
    ELSE [t EXCEPT !.pc = "sum_configure", !.keys_to_try = Tail(@), !.mi = 0,
                   !.last_error = <<e>>]

\* main.py:291-300: after a failed attempt, the next model of the same key,
\* or the next key when the models are used up
after_failure(t, e) ==
    IF t.mi < Len(priority_models)
    THEN [t EXCEPT !.mi = @ + 1, !.last_error = <<e>>]
    ELSE [t EXCEPT !.pc = "sum_configure", !.keys_to_try = Tail(@), !.mi = 0,
                   !.last_error = <<e>>]

\* main.py:286-300: one generation attempt, made with the installed key; it
\* returns response.text or raises an error whose text is of one of ErrKinds
sum_generate(r) ==
    /\ T(r).pc = "sum_generate"
    /\ LET model_name == priority_models[T(r).mi]
           attempt == [entry |-> Len(API_KEY_POOL) - Len(T(r).keys_to_try) + 1,
                       current_key |-> Head(T(r).keys_to_try),
                       model |-> model_name, used |-> api_key]
       IN  \/ /\ Goto(r, sum_return(T(r), <<"summary", model_name>>))
              /\ Note(r, [L(r) EXCEPT !.attempts = Append(@, attempt),
                                      !.last_outcome = "ok"])
           \/ \E e \in ErrKinds :
                 /\ Goto(r, after_failure(T(r), e))
                 /\ Note(r, [L(r) EXCEPT !.attempts = Append(@, attempt),
                                         !.last_outcome = e])
    /\ UNCHANGED <<pools, api_key, files, cookie_files>>

\* main.py:312: summarize_text(content) is called with a text that
\* get_video_content returned
sum_call(r) ==
    /\ T(r).pc = "sum_call"
    /\ \E tag \in {TagOfficial, TagCobalt} :
          Goto(r, [T(r) EXCEPT !.pc = "sum_shuffle",
                               !.ret = <<tag, <<"text">>>>])
    /\ Note(r, [L(r) EXCEPT !.sum_calls = @ + 1])
    /\ UNCHANGED <<pools, api_key, files, cookie_files>>

(***************************************************************************)
(* process_video_task, the notification: main.py:315-322                   *)
(***************************************************************************)
\* push with the error push in a `finally`: it follows a delivered push too
push_then_error_push(r) ==
    /\ T(r).pc = "push"
    /\ \E ok \in BOOLEAN :
          Note(r, [L(r) EXCEPT !.pushes =
                     Append(@, [text |-> T(r).result_msg, ok |-> ok])])
    /\ Goto(r, [T(r) EXCEPT !.pc = "push_error"])
    /\ UNCHANGED <<pools, api_key, files, cookie_files>>

\* main.py:315-319: push_message returns, or raises into the except clause
push(r) ==
    /\ T(r).pc = "push"
    /\ \/ /\ Note(r, [L(r) EXCEPT !.pushes =
                        Append(@, [text |-> T(r).result_msg, ok |-> TRUE])])
          /\ Goto(r, [T(r) EXCEPT !.pc = "done"])
       \/ /\ Note(r, [L(r) EXCEPT !.pushes =
                        Append(@, [text |-> T(r).result_msg, ok |-> FALSE])])
          /\ Goto(r, [T(r) EXCEPT !.pc = "push_error"])
    /\ UNCHANGED <<pools, api_key, files, cookie_files>>

\* push_error without its own try: a failing error push ends the thread with
\* the exception
push_error_raises(r) ==
    /\ T(r).pc = "push_error"
    /\ \/ /\ Note(r, [L(r) EXCEPT !.pushes =
                        Append(@, [text |-> <<MarkFail, "system-error">>,
                                   ok |-> TRUE])])
          /\ Goto(r, [T(r) EXCEPT !.pc = "done"])
       \/ /\ Note(r, [L(r) EXCEPT !.pushes =
                        Append(@, [text |-> <<MarkFail, "system-error">>,
                                   ok |-> FALSE])])
          /\ Goto(r, [T(r) EXCEPT !.pc = "raised"])
    /\ UNCHANGED <<pools, api_key, files, cookie_files>>

\* main.py:320-322: the push of the except clause; its own failure is passed
push_error(r) ==
    /\ T(r).pc = "push_error"
    /\ \E ok \in BOOLEAN :
          Note(r, [L(r) EXCEPT !.pushes =
                     Append(@, [text |-> <<MarkFail, "system-error">>, ok |-> ok])])
    /\ Goto(r, [T(r) EXCEPT !.pc = "done"])
    /\ UNCHANGED <<pools, api_key, files, cookie_files>>

(***************************************************************************)
(* Specifications                                                          *)
(***************************************************************************)
Next ==
    \E r \in Req :
       \/ handle_message(r)
       \/ gvc_parse(r)
       \/ strategy_A(r)
       \/ strategy_B(r)
       \/ strategy_C(r)
       \/ dl_shuffle(r)
       \/ dl_request(r)
       \/ dl_open(r)
       \/ dl_write(r)
       \/ dl_size(r)
       \/ dl_remove(r)
       \/ stt_open(r)
       \/ stt_transcribe(r)
       \/ stt_remove(r)
       \/ strategy_D(r)
       \/ D_extract(r)
       \/ D_size(r)
       \/ D_open(r)
       \/ D_transcribe(r)
       \/ D_remove(r)
       \/ D_finally(r)
       \/ gvc_return(r)
       \/ pvt_branch(r)
       \/ sum_shuffle(r)
       \/ sum_configure(r)
       \/ sum_generate(r)
       \/ push(r)
       \/ push_error(r)

\* one request, any message: the whole pipeline
Spec == Init /\ [][Next]_vars

\* the pipeline with its thread scheduled and every call it waits for
\* returning or raising: a step that can be taken is taken in the end
InitLive ==
    InitWith({1}, "idle", LiveMessages, DistinctKeyPools(PipelineKeys), BOOLEAN)
SpecLive == InitLive /\ [][Next]_vars /\ WF_vars(Next)

\* two requests handled at the same time (handle_message starts a thread
\* each), from the webhook to the end of strategy B, where they meet in
\* /tmp; the credential pool and the cookie play no part before strategy D
InitConc == InitWith(Req, "idle", ConcMessages, {<<>>}, {FALSE})
NextConc ==
    \E r \in Req :
       \/ handle_message(r)
       \/ gvc_parse(r)
       \/ strategy_A(r)
       \/ strategy_B(r)
       \/ dl_shuffle(r)
       \/ dl_request(r)
       \/ dl_open(r)
       \/ dl_write(r)
       \/ dl_size(r)
       \/ dl_remove(r)
       \/ stt_open(r)
       \/ stt_transcribe(r)
       \/ stt_remove(r)
SpecConc == InitConc /\ [][NextConc]_vars

\* one call of summarize_text(content), for every credential pool
InitSum == InitWith({1}, "sum_call", {<<>>}, KeyPools(MaxKeys), {FALSE})
NextSum ==
    \E r \in Req :
       \/ sum_call(r)
       \/ sum_shuffle(r)
       \/ sum_configure(r)
       \/ sum_generate(r)
SpecSum == InitSum /\ [][NextSum]_vars

\* two calls of summarize_text running at the same time, each in the thread
\* of its request (main.py:345-346), over a pool of different credentials
InitSumConc ==
    InitWith(Req, "sum_call", {<<>>}, {[i \in 1..ConcKeys |-> i]}, {FALSE})
SpecSumConc == InitSumConc /\ [][NextSum]_vars

(***************************************************************************)
(* Properties                                                              *)
(***************************************************************************)
\* get_video_content has returned to process_video_task (main.py:307)
Returned(r) == T(r).ret # <<"", <<>>>>
\* the audio files on disk that request r wrote
ArtifactsOf(r) == {p \in Paths : files[p].exists /\ files[p].owner = r}

\* C1: after get_video_content returns, no audio artifact file created by
\* that run (Cobalt, Invidious or yt-dlp download) still exists on disk,
\* also when the download was interrupted or the transcription raised.
C1_NoArtifactSurvives ==
    \A r \in Req : Returned(r) => ArtifactsOf(r) = {}

\* the texts each strategy produces
TextsOf(tag) ==
    CASE tag = TagOfficial -> {<<"cc", l>> : l \in Languages}
      [] tag = TagCobalt -> {<<"stt", "cob">>}
      [] tag = TagInvidious -> {<<"stt", "inv">>}
      [] tag = TagYtdlp -> {<<"stt", "ytd">>}
      [] OTHER -> {}
SuccessTags == {TagOfficial, TagCobalt, TagInvidious, TagYtdlp}
Reasons == {<<"all-methods-failed">>, <<"unrecognized-url">>}

\* C2: get_video_content returns either a failure pair (tag "failed" or
\* "error" with a reason) or a success pair whose text is non-empty and was
\* produced by the strategy the tag names; never a success tag with a
\* failure reason.
C2_OneOutcome ==
    \A r \in Req :
       Returned(r) =>
          LET tag == T(r).ret[1]
              content == T(r).ret[2]
          IN  \/ is_failure(tag) /\ content \in Reasons
              \/ /\ tag \in SuccessTags
                 /\ Truthy(content)
                 /\ content \in TextsOf(tag)

\* C2's case: a later strategy produced the text that is returned
C2_Witness ==
    \E r \in Req : T(r).ret = <<TagInvidious, <<"stt", "inv">>>>

IsPrefix(s, t) == Len(s) <= Len(t) /\ \A i \in 1..Len(s) : s[i] = t[i]
Cascade == <<"A", "B", "C", "D">>

\* C3: the cascade only moves forward: the strategies are entered at most
\* once each and in the order A, B, C, D; a strategy is entered, or makes its
\* network calls, only while no text has been produced; and a text of the
\* official transcript is returned under the official tag with no mirror
\* consulted.
C3_CascadeForward ==
    [][\A r \in Req :
          /\ IsPrefix(log'[r].entered, Cascade)
          /\ log'[r].netlog \subseteq
                {log'[r].entered[i] : i \in 1..Len(log'[r].entered)}
          /\ (log'[r].entered # log[r].entered \/ log'[r].netlog # log[r].netlog)
                => ~Truthy(thread[r].full_text)
          /\ (Truthy(thread'[r].full_text) /\ thread'[r].source_type = TagOfficial)
                => log'[r].netlog = {"A"}
          /\ (thread[r].pc = "gvc_return" /\ thread'[r].pc # "gvc_return"
                 /\ Truthy(thread[r].full_text)
                 /\ thread[r].source_type = TagOfficial)
                => /\ thread'[r].ret = <<TagOfficial, thread[r].full_text>>
                   /\ log'[r].netlog = {"A"}
      ]_vars

\* C3's case: strategy B produced the text, C and D were never entered
C3_Witness ==
    \E r \in Req : /\ T(r).ret[1] = TagCobalt
                   /\ L(r).entered = <<"A", "B">>
                   /\ L(r).netlog = {"A", "B"}

\* C4: when the official transcript fails, the mirror pool is polled for
\* subtitle text (TRY_MIRROR_TEXT) before any audio download is attempted.
C4_MirrorTextBeforeAudio ==
    \A r \in Req :
       (L(r).netlog \cap {"B", "C", "D"} # {}) =>
          \E i \in 1..Len(L(r).entered) : L(r).entered[i] = "MIRROR_TEXT"

\* the (credential, model) pairs of the attempts made so far, a credential
\* being an entry of keys_to_try
Pairs(r) == {<<L(r).attempts[i].entry, L(r).attempts[i].model>> :
                i \in 1..Len(L(r).attempts)}
MatrixSize == Len(API_KEY_POOL) * Len(priority_models)

\* C5: in one call of summarize_text every (credential, model) pair is
\* attempted at most once and there are never more than K*M attempts.
C5_AtMostOncePerPair ==
    \A r \in Req :
       /\ Len(L(r).attempts) <= MatrixSize
       /\ Cardinality(Pairs(r)) = Len(L(r).attempts)

\* C5's case: a walk of three credentials that reached its last pair
C5_Witness ==
    \E r \in Req : /\ Len(API_KEY_POOL) = 3
                   /\ Len(L(r).attempts) = 12
                   /\ L(r).last_outcome = "ok"

\* summarize_text has returned; it has returned the failure string
\* (main.py:290, 302)
SumReturned(r) == T(r).pc = "push" /\ L(r).sum_calls > 0
SumFailed(r) == SumReturned(r) /\ T(r).summary[1] = GenFailPrefix

\* C6: when every attempt fails summarize_text makes exactly K*M attempts
\* and returns the failure string with the error of the last attempt; with
\* an empty pool it makes no attempt and returns the failure string.
C6_ExhaustsMatrix ==
    \A r \in Req :
       /\ (SumReturned(r) /\ L(r).last_outcome # "ok") =>
             /\ Len(L(r).attempts) = MatrixSize
             /\ T(r).summary =
                   IF MatrixSize = 0 THEN <<GenFailPrefix>>
                   ELSE <<GenFailPrefix, L(r).last_outcome>>
       /\ (T(r).pc \in {"sum_configure", "sum_generate"}
             /\ L(r).attempts # <<>>) => L(r).last_outcome \in ErrKinds
       /\ SumFailed(r) => L(r).last_outcome # "ok"

\* C6's case: three credentials, twelve attempts, all rate-limited at the end
C6_Witness ==
    \E r \in Req : /\ SumFailed(r)
                   /\ Len(API_KEY_POOL) = 3
                   /\ Len(L(r).attempts) = 12
                   /\ T(r).summary = <<GenFailPrefix, "429">>

\* spec.md 4.4: the size from which the large-file path is to be taken (24 MB)
LargeFileThreshold == 25165824

\* C7: an audio artifact at or above the size threshold is not sent through
\* the fast path followed by summarize_text: generation is not invoked for
\* that request.
C7_LargeFileSkipsGeneration ==
    \A r \in Req :
       L(r).audio_size >= LargeFileThreshold => L(r).sum_calls = 0

\* C8: the payload starts with the success marker only when a summary was
\* generated; after an exhausted generation matrix it starts with the
\* failure marker.
C8_FailureMarker ==
    \A r \in Req :
       \A i \in 1..Len(L(r).pushes) :
          LET text == L(r).pushes[i].text IN
          text[1] = MarkOk => text[3] # GenFailPrefix

\* C9: at most one push_message call succeeds per request, and the error
\* push is attempted only after the first push did not succeed.
C9_SinglePayload ==
    \A r \in Req :
       LET pushes == L(r).pushes IN
       /\ Len(pushes) <= 2
       /\ Cardinality({i \in 1..Len(pushes) : pushes[i].ok}) <= 1
       /\ Len(pushes) = 2 => ~pushes[1].ok

\* C9's case: the first push raised and the error push was delivered
C9_Witness ==
    \E r \in Req : /\ T(r).pc = "done"
                   /\ Len(L(r).pushes) = 2
                   /\ ~L(r).pushes[1].ok
                   /\ L(r).pushes[2].ok

\* C10: a request that opened its audio artifact for transcription reads
\* its own, completely written file: no other request has removed or
\* overwritten it.
C10_OwnArtifact ==
    \A r \in Req :
       T(r).pc = "stt_read" =>
          LET f == files[T(r).audio_file] IN
          f.exists /\ f.owner = r /\ f.complete

\* C11: every generation attempt of a request is made with the credential
\* that the request's own walk selected for it (current_key), also when the
\* summarize_text of another request runs interleaved with it.
C11_OwnCredential ==
    \A r \in Req :
       \A i \in 1..Len(L(r).attempts) :
          L(r).attempts[i].used = L(r).attempts[i].current_key

\* main.py:166-169: the two forms of URL get_video_content takes an
\* identifier from
is_recognized(url) == Contains(url, "v=") \/ Contains(url, "youtu.be")

\* C12: a message that holds no URL of the two recognized forms is ignored:
\* it is not acknowledged, no background thread is started for it and no
\* notification is pushed for it.
C12_UnrecognizedIgnored ==
    \A r \in Req :
       (T(r).pc # "off" /\ ~is_recognized(T(r).msg)) =>
          /\ ~L(r).replied
          /\ T(r).pc \in {"idle", "ignored"}
          /\ L(r).pushes = <<>>

C14_RunsToCompletion ==
    \A r \in Req :
       (T(r).pc = "gvc_parse") ~>
          (T(r).pc = "done" /\ Returned(r) /\ L(r).pushes # <<>>)

\* C14's case: a unit that went through all four strategies and whose two
\* pushes both raised has ended
C14_Witness ==
    \E r \in Req : /\ T(r).pc = "done"
                   /\ L(r).entered = Cascade
                   /\ Len(L(r).pushes) = 2
                   /\ ~L(r).pushes[2].ok

\* the instances the poll under way has asked and those it has yet to ask
InPoll(r) == T(r).pc \in {"dl_request", "dl_open", "dl_write", "dl_size", "dl_remove"}
Ahead(r) == IF T(r).pc = "dl_request" THEN T(r).instances ELSE Tail(T(r).instances)
PoolOf(kind) == IF kind = "cob" THEN COBALT_INSTANCES ELSE INVIDIOUS_INSTANCES
Elems(s) == {s[i] : i \in 1..Len(s)}

\* C15: in a mirror-pool poll each instance is asked at most once; every
\* failure of an instance (status, error response, missing URL, exception,
\* download under the minimum size) leads on to the next instance; an
\* undersized download is deleted before the poll goes on; transcription
\* starts only on a download of at least the minimum size, so an exhausted
\* pool transcribes nothing; and the yt-dlp path never transcribes an
\* artifact under the minimum size and leaves none on disk.
C15_PollRejects ==
    \A r \in Req :
       /\ Cardinality(Elems(L(r).polled)) = Len(L(r).polled)
       /\ InPoll(r) =>
             /\ Elems(L(r).polled) \cup Elems(Ahead(r)) = Elems(PoolOf(T(r).kind))
             /\ Len(L(r).polled) + Len(Ahead(r)) = Len(PoolOf(T(r).kind))
       /\ T(r).pc = "dl_request" =>
             LET f == files[download_path(T(r))] IN
             ~(f.exists /\ f.owner = r /\ f.complete /\ f.size < MinSize)
       /\ T(r).pc \in {"stt_open", "stt_read"} =>
             /\ T(r).audio_file = download_path(T(r))
             /\ files[T(r).audio_file].size >= MinSize
       /\ T(r).pc \in {"D_open", "D_read"} => files[T(r).filename].size >= MinSize
       /\ L(r).audio_size # 0 => L(r).audio_size >= MinSize
       /\ T(r).pc \in {"D_finally", "gvc_return", "pvt_branch"} =>
             \A p \in Paths : (files[p].exists /\ p[2] = "ytd")
                                  => files[p].size >= MinSize

\* C15's case: the Invidious poll has asked every instance of the pool, none
\* left a download behind, and the list is used up
C15_Witness ==
    \E r \in Req : /\ T(r).pc = "dl_request"
                   /\ T(r).kind = "inv"
                   /\ T(r).instances = <<>>
                   /\ Len(L(r).polled) = NumInstances
                   /\ ~files[download_path(T(r))].exists

\* the credentials of the entries the walk has finished with, in the order
\* it took them
KeysDone(r) ==
    [e \in 1..(Len(API_KEY_POOL) - Len(T(r).keys_to_try)) |->
        L(r).attempts[(e - 1) * Len(priority_models) + 1].current_key]

\* C16: summarize_text walks the matrix credential-major: attempt number i
\* is for model ((i-1) mod M)+1 of the priority order and for credential
\* ((i-1) div M)+1 of the shuffled order, which is a permutation of the
\* pool; a credential is left only after its M models failed; and after the
\* first successful attempt the call has returned that attempt's text with
\* no further attempt.
C16_CredentialMajor ==
    \A r \in Req :
       LET M == Len(priority_models)
           attempts == L(r).attempts
           n == Len(attempts)
       IN  /\ \A i \in 1..n :
                 /\ attempts[i].entry = ((i - 1) \div M) + 1
                 /\ attempts[i].model = priority_models[((i - 1) % M) + 1]
                 /\ attempts[i].current_key =
                       attempts[(attempts[i].entry - 1) * M + 1].current_key
           /\ T(r).pc \in {"sum_configure", "sum_generate"} =>
                 /\ KeysDone(r) \o T(r).keys_to_try \in Shuffles(API_KEY_POOL)
                 /\ n = Len(KeysDone(r)) * M
                          + (IF T(r).pc = "sum_generate" THEN T(r).mi - 1 ELSE 0)
           /\ L(r).last_outcome = "ok" =>
                 /\ SumReturned(r)
                 /\ T(r).summary = <<"summary", attempts[n].model>>

\* C16's case: the first credential failed on all models and the second, a
\* different one, succeeded on its second model
C16_Witness ==
    \E r \in Req :
       /\ Len(L(r).attempts) = Len(priority_models) + 2
       /\ L(r).last_outcome = "ok"
       /\ L(r).attempts[1].current_key
             # L(r).attempts[Len(priority_models) + 1].current_key
       /\ T(r).summary = <<"summary", priority_models[2]>>

\* C17: no step of request handling changes COBALT_INSTANCES,
\* INVIDIOUS_INSTANCES or API_KEY_POOL: they keep their elements and their
\* order, the shuffles working on copies.
C17_PoolsNotMutated ==
    [][/\ COBALT_INSTANCES' = COBALT_INSTANCES
       /\ INVIDIOUS_INSTANCES' = INVIDIOUS_INSTANCES
       /\ API_KEY_POOL' = API_KEY_POOL]_vars

\* C17's case: a poll works on a copy in another order than the pool's, and
\* the pool is as it was at process start
C17_Witness ==
    \E r \in Req : /\ T(r).pc = "dl_request"
                   /\ Len(T(r).instances) = NumInstances
                   /\ T(r).instances # PoolOf(T(r).kind)
                   /\ PoolOf(T(r).kind) = [i \in 1..NumInstances |-> i]

\* spec.md 3 (SubtitleTrack), 4.1: the language-priority order, the target
\* language before the fallback language
LanguagePriority == <<"zh-TW", "en">>
\* spec.md 4.1: the track usable under the priority order, or the first track
\* of the list when none matches
select_track(tracks) ==
    LET hits == {i \in 1..Len(LanguagePriority) :
                    Contains(tracks, LanguagePriority[i])}
    IN  IF hits = {} THEN tracks[1]
        ELSE LanguagePriority[CHOOSE i \in hits : \A j \in hits : i <= j]

\* C18: the official transcript that is returned is of the track the
\* language-priority order selects from the list of tracks: a track in a
\* priority language also when it is not the first of the list, the first
\* track only when no track matches.
C18_LanguagePriority ==
    \A r \in Req :
       T(r).ret[1] = TagOfficial =>
          T(r).ret[2] = <<"cc", select_track(L(r).tracks)>>

\* C19: a cookie file is on disk only for a request that reached strategy D
\* with YOUTUBE_COOKIES configured, and after get_video_content has returned
\* no cookie file of the request is left.
C19_CookieFileRemoved ==
    \A r \in Req :
       /\ r \in cookie_files =>
             /\ YOUTUBE_COOKIES
             /\ \E i \in 1..Len(L(r).entered) : L(r).entered[i] = "D"
       /\ Returned(r) => r \notin cookie_files

====
